---------------------------- MODULE Spec2Model ----------------------------
(***************************************************************************)
(* Model of award_force_daily_export.py: the paginated fetch (cf_get_all),  *)
(* the region classifier (chapter_to_region), the chapter loader, the entry *)
(* aggregator (build_counts), the report composer and the orchestrator      *)
(* (main) with its failure boundary, the workbook writer and the Telegram   *)
(* sender.                                                                  *)
(*                                                                          *)
(* A Python str is modelled as the tuple of its code points, so that        *)
(* str.lower(), == and < are computed character by character.               *)
(***************************************************************************)
EXTENDS Integers, Sequences, FiniteSets, TLC

VARIABLES
    API_KEY,     \* module global: TRUE iff CF_API_KEY is a non-empty string
    BOT_TOKEN,   \* module global: TRUE iff BOT_TOKEN is a non-empty string
    CHAT_ID,     \* module global: TRUE iff TELEGRAM_CHAT_ID is a non-empty string
    pc,          \* control position of the code under execution
    remote,      \* the remote collection the running cf_get_all call talks to
    url,         \* cf_get_all local: 0 is None, k > 0 is the URL of the k-th page
    params,      \* cf_get_all local: "query" (the filter dict) or "none"
    items,       \* cf_get_all local: the records accumulated so far
    requests,    \* network: number of GET requests issued (counted up to RequestCap)
    getFailed,   \* network: some GET was answered with an error response
    chapters,    \* main local: insertion-ordered dict slug -> {name, region}
    counts,      \* build_counts local: slug -> the four counters
    rows,        \* main local: the composed report rows
    written,     \* file system: this run's workbook file has been written
    upload,      \* network: "none", or the outcome of the one POST to Telegram
    log,         \* the lines handed to logging, in order
    name,        \* chapter_to_region argument
    region,      \* chapter_to_region result
    fetched      \* the materialised fetch results a report is built from

vars == << API_KEY, BOT_TOKEN, CHAT_ID, pc, remote, url, params, items, requests,
           getFailed, chapters, counts, rows, written, upload, log, name, region,
           fetched >>

-----------------------------------------------------------------------------
(* Bounds of the model.                                                     *)

\* Longest chain of pages a remote collection serves.
MaxPages == 2
\* Most records on one page when cf_get_all is exercised on its own.
MaxBatch == 2
\* Most records on one page during a modelled run of main.
MaxRunBatch == 1
\* Most chapter records a report is built from.
MaxChapters == 3
\* Most entries per category a report is built from.
MaxEntries == 2

\* requests counts exactly below this value; every run whose three chains end
\* issues at most 3 * MaxPages requests.
RequestCap == 3 * MaxPages + 1

-----------------------------------------------------------------------------
(* Strings.                                                                 *)

Range(s) == { s[i] : i \in DOMAIN s }

\* str.lower() on one ASCII character.
LowerChar(c) == IF c \in 65..90 THEN c + 32 ELSE c

\* str.lower().
Lower(s) == [ i \in 1..Len(s) |-> LowerChar(s[i]) ]

\* Python's < on str: lexicographic on code points, a proper prefix is smaller.
RECURSIVE StrLess(_, _)
StrLess(a, b) ==
    IF b = << >> THEN FALSE
    ELSE IF a = << >> THEN TRUE
    ELSE IF Head(a) # Head(b) THEN Head(a) < Head(b)
    ELSE StrLess(Tail(a), Tail(b))

AMR   == <<65, 77, 82>>              \* "AMR"
PRC   == <<80, 82, 67>>              \* "PRC"
APJ   == <<65, 80, 74>>              \* "APJ"
EMEA  == <<69, 77, 69, 65>>          \* "EMEA"
Other == <<79, 116, 104, 101, 114>>  \* "Other"

GlobalFestival ==
    <<103, 108, 111, 98, 97, 108, 32, 102, 101, 115, 116, 105, 118, 97, 108>>  \* "global festival"

\* REGION_MAP, in the dict's insertion order.
REGION_MAP == <<
    [ region |-> AMR, countries |-> <<
        <<97, 114, 103, 101, 110, 116, 105, 110, 97>>,        \* "argentina"
        <<98, 114, 97, 122, 105, 108>>,                       \* "brazil"
        <<99, 97, 110, 97, 100, 97>>,                         \* "canada"
        <<99, 111, 115, 116, 97, 32, 114, 105, 99, 97>>,      \* "costa rica"
        <<109, 101, 120, 105, 99, 111>>,                      \* "mexico"
        <<117, 110, 105, 116, 101, 100, 32, 115, 116, 97, 116, 101, 115, 32,
          111, 102, 32, 97, 109, 101, 114, 105, 99, 97>>      \* "united states of america"
      >> ],
    [ region |-> PRC, countries |-> <<
        <<99, 104, 105, 110, 97>>                             \* "china"
      >> ],
    [ region |-> APJ, countries |-> <<
        <<98, 97, 110, 103, 108, 97, 100, 101, 115, 104>>,    \* "bangladesh"
        <<105, 110, 100, 105, 97>>,                           \* "india"
        <<105, 110, 100, 111, 110, 101, 115, 105, 97>>,       \* "indonesia"
        <<106, 97, 112, 97, 110>>,                            \* "japan"
        <<109, 97, 108, 97, 121, 115, 105, 97>>,              \* "malaysia"
        <<115, 105, 110, 103, 97, 112, 111, 114, 101>>,       \* "singapore"
        <<115, 111, 117, 116, 104, 32, 107, 111, 114, 101, 97>>,  \* "south korea"
        <<116, 97, 105, 119, 97, 110>>,                       \* "taiwan"
        <<116, 104, 97, 105, 108, 97, 110, 100>>,             \* "thailand"
        <<118, 105, 101, 116, 110, 97, 109>>,                 \* "vietnam"
        <<97, 117, 115, 116, 114, 97, 108, 105, 97>>,         \* "australia"
        <<110, 101, 119, 32, 122, 101, 97, 108, 97, 110, 100>>  \* "new zealand"
      >> ] >>

\* The for loop of chapter_to_region from the i-th REGION_MAP item on:
\* `lc in countries` is list membership, that is equality with one element.
RECURSIVE RegionLoop(_, _)
RegionLoop(lc, i) ==
    IF i > Len(REGION_MAP) THEN EMEA
    ELSE IF lc \in Range(REGION_MAP[i].countries) THEN REGION_MAP[i].region
    ELSE RegionLoop(lc, i + 1)

\* A slip the classifier could have: the name is looked up as given.
chapter_to_region_as_given(nm) ==
    IF nm = GlobalFestival THEN Other ELSE RegionLoop(nm, 1)

chapter_to_region(nm) ==
    LET lc == Lower(nm)
    IN  IF lc = GlobalFestival THEN Other ELSE RegionLoop(lc, 1)


-----------------------------------------------------------------------------
(* The remote API.                                                          *)
(*                                                                          *)
(* A remote collection is a chain of pages that answer successfully,        *)
(* followed by its tail: "end" (the last page carries no next_page_url), an *)
(* error answer to the next request, or "loop" (the next two pages are      *)
(* empty and each names the other as its next page).  The URL of the k-th   *)
(* page is k.                                                               *)

Tails == { "end", "http_error", "timeout", "malformed", "loop" }

Batches(R, n) == UNION { [1..k -> R] : k \in 0..n }

Chains(R, n, lo, hi) == UNION { [1..k -> Batches(R, n)] : k \in lo..hi }

Remotes(R, n) ==
    { [pages |-> p, tail |-> "end"] : p \in Chains(R, n, 1, MaxPages) }
    \cup
    { [pages |-> p, tail |-> t] :
        p \in Chains(R, n, 0, MaxPages - 1), t \in Tails \ {"end"} }

NoRemote == [pages |-> << >>, tail |-> "end"]

\* The answer to requests.get on the k-th URL of the collection.
Respond(rem, k) ==
    IF k <= Len(rem.pages)
    THEN [ status |-> "ok",
           data   |-> rem.pages[k],
           next   |-> IF k < Len(rem.pages) \/ rem.tail # "end" THEN k + 1 ELSE 0 ]
    ELSE IF rem.tail = "loop"
    THEN [ status |-> "ok", data |-> << >>,
           next |-> IF k = Len(rem.pages) + 1 THEN k + 1 ELSE k - 1 ]
    ELSE [ status |-> rem.tail, data |-> << >>, next |-> 0 ]

\* The exception each error answer raises inside the loop body:
\* requests.get (timeout=30), r.raise_for_status(), r.json().
Raised(status) ==
    CASE status = "timeout"    -> "Timeout"
      [] status = "http_error" -> "HTTPError"
      [] status = "malformed"  -> "JSONDecodeError"
      [] OTHER                 -> ""

Bump(n) == IF n < RequestCap THEN n + 1 ELSE n

\* A slip the fetcher could have: an error answer ends the loop and the records
\* gathered so far are returned.
CfGetAllIterSwallow(rem, u, its) ==
    LET r == Respond(rem, u)
    IN  IF r.status # "ok"
        THEN [ raised |-> "", url |-> 0, params |-> "none", items |-> its ]
        ELSE [ raised |-> "", url |-> r.next, params |-> "none",
               items |-> its \o r.data ]

\* A slip the fetcher could have: the page replaces the accumulated list.
CfGetAllIterReplace(rem, u, its) ==
    LET r == Respond(rem, u)
    IN  IF r.status # "ok"
        THEN [ raised |-> Raised(r.status), url |-> u, params |-> "none", items |-> its ]
        ELSE [ raised |-> "", url |-> r.next, params |-> "none", items |-> r.data ]

\* One iteration of cf_get_all's while loop: the locals after it, or the
\* exception that leaves the function.
CfGetAllIter(rem, u, its) ==
    LET r == Respond(rem, u)
    IN  IF r.status # "ok"
        THEN [ raised |-> Raised(r.status), url |-> u, params |-> "none", items |-> its ]
        ELSE [ raised |-> "", url |-> r.next, params |-> "none",
               items |-> its \o r.data ]

\* The request of one iteration, as the network sees it, and the locals after it.
GetPage ==
    /\ requests' = Bump(requests)
    /\ getFailed' = (getFailed \/ Respond(remote, url).status # "ok")
    /\ url' = CfGetAllIter(remote, url, items).url
    /\ params' = CfGetAllIter(remote, url, items).params
    /\ items' = CfGetAllIter(remote, url, items).items

-----------------------------------------------------------------------------
(* Logging.  A line is its level, its message and the detail formatted in.  *)

Line(level, msg, detail) == [level |-> level, msg |-> msg, detail |-> detail]

KeyMissing  == Line("ERROR", "CF_API_KEY is missing. Aborting.", "")
RunStart    == Line("INFO", "=== RUN START ===", "")
RunEnd      == Line("INFO", "=== RUN END ===", "")
Loaded      == Line("INFO", "Loaded %d chapters", "")
Pulling(c)  == Line("INFO", "Pulling entries for category %s", c)
Saved       == Line("INFO", "Workbook saved", "")
NotSending  == Line("ERROR", "BOT_TOKEN or TELEGRAM_CHAT_ID missing - not sending to Telegram.", "")
Sent        == Line("INFO", "Sent %s to Telegram chat %s", "")
UploadFailed == Line("ERROR", "Telegram upload failed: %s", "resp.text")
RunFailed(exc) == Line("ERROR", "Run failed: %s", exc)

\* CATEGORY_SLUGS
CATEGORY_SLUGS == [ c13_17 |-> "ZLgyzemp", above18 |-> "Kgwrlowa" ]

-----------------------------------------------------------------------------
(* Chapter loader.                                                          *)

\* dict assignment d[slug] = val on an insertion-ordered dict: an existing key
\* keeps its position, a new key goes last.
DictPut(d, val) ==
    IF \E i \in DOMAIN d : d[i].slug = val.slug
    THEN [ i \in DOMAIN d |-> IF d[i].slug = val.slug THEN val ELSE d[i] ]
    ELSE Append(d, val)

\* The for loop of fetch_chapters over the fetched records, first to last.
RECURSIVE LoadChapters(_)
LoadChapters(recs) ==
    IF recs = << >> THEN << >>
    ELSE LET ch == recs[Len(recs)]
         IN  DictPut(LoadChapters(SubSeq(recs, 1, Len(recs) - 1)),
                     [ slug   |-> ch.slug,
                       name   |-> ch.name,
                       region |-> chapter_to_region(ch.name) ])

Slugs(chs) == { chs[i].slug : i \in DOMAIN chs }

-----------------------------------------------------------------------------
(* Entry aggregator.                                                        *)

Counters == { "13_sub", "13_prog", "18_sub", "18_prog" }

\* The dict comprehension that opens build_counts.
ZeroCounts(chs) == [ s \in Slugs(chs) |-> [ k \in Counters |-> 0 ] ]

\* A slip the aggregator could have: the status is not looked at.
TallyEntryAnyStatus(cnt, e, sub, prog) ==
    IF e.slug \in DOMAIN cnt
    THEN [ cnt EXCEPT ![e.slug][sub] = @ + 1 ]
    ELSE cnt

\* The body of either for loop of build_counts, for one entry.
TallyEntry(cnt, e, sub, prog) ==
    IF e.slug \in DOMAIN cnt
    THEN [ cnt EXCEPT ![e.slug][IF e.status = "submitted" THEN sub ELSE prog] = @ + 1 ]
    ELSE cnt

\* Either for loop of build_counts over one category's entries.
RECURSIVE Tally(_, _, _, _)
Tally(cnt, es, sub, prog) ==
    IF es = << >> THEN cnt
    ELSE Tally(TallyEntry(cnt, Head(es), sub, prog), Tail(es), sub, prog)

\* build_counts, given what its two gather_entries calls return.
build_counts(chs, e13, e18) ==
    Tally(Tally(ZeroCounts(chs), e13, "13_sub", "13_prog"), e18, "18_sub", "18_prog")

-----------------------------------------------------------------------------
(* Report composer.                                                         *)

\* A slip the composer could have: the name is compared as written.
SortKeyRaw(meta) == << meta.region, meta.name >>

\* The key function of sorted(): (region, name.lower()).
SortKey(meta) == << meta.region, Lower(meta.name) >>

\* Python's < on the 2-tuples of str.
KeyLess(k1, k2) ==
    IF k1[1] # k2[1] THEN StrLess(k1[1], k2[1]) ELSE StrLess(k1[2], k2[2])

\* sorted() is stable: an item goes after every item whose key is not greater.
RECURSIVE InsertSorted(_, _)
InsertSorted(x, s) ==
    IF s = << >> THEN << x >>
    ELSE IF KeyLess(SortKey(x), SortKey(Head(s))) THEN << x >> \o s
    ELSE << Head(s) >> \o InsertSorted(x, Tail(s))

RECURSIVE Sorted(_)
Sorted(chs) ==
    IF chs = << >> THEN << >>
    ELSE InsertSorted(chs[Len(chs)], Sorted(SubSeq(chs, 1, Len(chs) - 1)))

\* The row main builds for one chapter, numbered i.
Row(i, meta, c) ==
    [ No      |-> i,
      Region  |-> meta.region,
      Name    |-> meta.name,
      Sub13   |-> c["13_sub"],
      Prog13  |-> c["13_prog"],
      Sub18   |-> c["18_sub"],
      Prog18  |-> c["18_prog"],
      Total   |-> c["13_sub"] + c["13_prog"] + c["18_sub"] + c["18_prog"] ]

\* The compose-and-sort loop of main: enumerate(sorted(...), start=1).
ComposeRows(chs, cnt) ==
    LET s == Sorted(chs)
    IN  [ i \in 1..Len(s) |-> Row(i, s[i], cnt[s[i].slug]) ]

-----------------------------------------------------------------------------
(* Workbook writer and Telegram sender.                                     *)

\* make_workbook: pd.DataFrame(rows)[cols] raises KeyError when rows is empty
\* (the frame then has no columns to select); to_excel raises OSError when the
\* file cannot be written.
make_workbook(rws, disk) ==
    IF rws = << >> THEN [ raised |-> "KeyError", written |-> FALSE ]
    ELSE IF disk # "ok" THEN [ raised |-> "OSError", written |-> FALSE ]
    ELSE [ raised |-> "", written |-> TRUE ]

UploadOutcomes == { "accepted", "rejected", "connection_error", "timeout" }

\* send_to_telegram: whether the POST is issued, the exception that leaves the
\* function ("" when it returns) and what it logs.  requests.post raises on a
\* transport failure or a timeout; a non-success response is returned.
send_to_telegram(bot, chat, outcome) ==
    IF ~ (bot /\ chat)
    THEN [ posted |-> FALSE, raised |-> "", lines |-> << NotSending >> ]
    ELSE CASE outcome = "accepted" ->
                [ posted |-> TRUE, raised |-> "", lines |-> << Sent >> ]
           [] outcome = "rejected" ->
                [ posted |-> TRUE, raised |-> "", lines |-> << UploadFailed >> ]
           [] outcome = "connection_error" ->
                [ posted |-> TRUE, raised |-> "ConnectionError", lines |-> << >> ]
           [] OTHER ->
                [ posted |-> TRUE, raised |-> "Timeout", lines |-> << >> ]

-----------------------------------------------------------------------------
(* The orchestrator.                                                        *)

\* A slip main could have: the missing key is logged and the run goes on.
MainEntryNoReturn(key) ==
    IF key
    THEN [ pc |-> "fetch_chapters", lines |-> << RunStart >> ]
    ELSE [ pc |-> "fetch_chapters", lines |-> << KeyMissing, RunStart >> ]

\* The head of main: the API key check and the start marker.
MainEntry(key) ==
    IF ~ key
    THEN [ pc |-> "done", lines |-> << KeyMissing >> ]
    ELSE [ pc |-> "fetch_chapters", lines |-> << RunStart >> ]

\* A slip main could have: the handler logs and raises again.
MainExceptReraise(exc) == [ pc |-> "crashed", lines |-> << RunFailed(exc) >> ]

\* The except clause of main: logging.exception, then on to the end marker.
MainExcept(exc) == [ pc |-> "run_end", lines |-> << RunFailed(exc) >> ]

\* The records the remote API serves during a modelled run.
RunChapterRecords ==
    { [ slug |-> "a", name |-> <<66, 114, 97, 122, 105, 108>> ],   \* "Brazil"
      [ slug |-> "b", name |-> <<67, 104, 105, 110, 97>> ] }       \* "China"

RunEntryRecords ==
    { [ slug |-> "a",  status |-> "submitted" ],
      [ slug |-> "zz", status |-> "in_progress" ] }

NoFetched == [ chapters |-> << >>, e13 |-> << >>, e18 |-> << >> ]

\* Entry to cf_get_all: url = BASE_URL + path, items = [], against the
\* collection the remote serves for that path and filter.
Call(R) ==
    /\ remote' \in Remotes(R, MaxRunBatch)
    /\ url' = 1
    /\ params' = "query"
    /\ items' = << >>

FetchPCs == { "fetch_chapters", "gather_13", "gather_18" }

Init ==
    /\ API_KEY \in BOOLEAN
    /\ BOT_TOKEN \in BOOLEAN
    /\ CHAT_ID \in BOOLEAN
    /\ pc = "main"
    /\ remote = NoRemote
    /\ url = 0
    /\ params = "none"
    /\ items = << >>
    /\ requests = 0
    /\ getFailed = FALSE
    /\ chapters = << >>
    /\ counts = ZeroCounts(<< >>)
    /\ rows = << >>
    /\ written = FALSE
    /\ upload = "none"
    /\ log = << >>
    /\ name = << >>
    /\ region = << >>
    /\ fetched = NoFetched

\* main up to the first request of fetch_chapters.
MainStart ==
    /\ pc = "main"
    /\ pc' = MainEntry(API_KEY).pc
    /\ log' = log \o MainEntry(API_KEY).lines
    /\ IF MainEntry(API_KEY).pc = "fetch_chapters"
       THEN Call(RunChapterRecords)
       ELSE UNCHANGED << remote, url, params, items >>
    /\ UNCHANGED << API_KEY, BOT_TOKEN, CHAT_ID, requests, getFailed, chapters,
                    counts, rows, written, upload, name, region, fetched >>

\* One iteration of cf_get_all's loop, called from inside main's try block.
MainFetch ==
    /\ pc \in FetchPCs
    /\ url # 0
    /\ GetPage
    /\ LET exc == CfGetAllIter(remote, url, items).raised
       IN  IF exc # ""
           THEN /\ pc' = MainExcept(exc).pc
                /\ log' = log \o MainExcept(exc).lines
           ELSE UNCHANGED << pc, log >>
    /\ UNCHANGED << API_KEY, BOT_TOKEN, CHAT_ID, remote, chapters, counts, rows,
                    written, upload, name, region, fetched >>

\* cf_get_all returns to fetch_chapters; build_counts starts and calls
\* gather_entries for the 13-17 category.
FetchChaptersReturn ==
    /\ pc = "fetch_chapters"
    /\ url = 0
    /\ chapters' = LoadChapters(items)
    /\ counts' = ZeroCounts(chapters')
    /\ log' = log \o << Loaded, Pulling(CATEGORY_SLUGS.c13_17) >>
    /\ Call(RunEntryRecords)
    /\ pc' = "gather_13"
    /\ UNCHANGED << API_KEY, BOT_TOKEN, CHAT_ID, requests, getFailed, rows,
                    written, upload, name, region, fetched >>

\* The first loop of build_counts, then gather_entries for the 18+ category.
Gather13Return ==
    /\ pc = "gather_13"
    /\ url = 0
    /\ counts' = Tally(counts, items, "13_sub", "13_prog")
    /\ log' = Append(log, Pulling(CATEGORY_SLUGS.above18))
    /\ Call(RunEntryRecords)
    /\ pc' = "gather_18"
    /\ UNCHANGED << API_KEY, BOT_TOKEN, CHAT_ID, requests, getFailed, chapters,
                    rows, written, upload, name, region, fetched >>

\* The second loop of build_counts, then main's compose-and-sort loop.
Gather18Return ==
    /\ pc = "gather_18"
    /\ url = 0
    /\ counts' = Tally(counts, items, "18_sub", "18_prog")
    /\ rows' = ComposeRows(chapters, counts')
    /\ pc' = "make_workbook"
    /\ UNCHANGED << API_KEY, BOT_TOKEN, CHAT_ID, remote, url, params, items,
                    requests, getFailed, chapters, written, upload, log, name,
                    region, fetched >>

\* wb_path = make_workbook(rows) and the line that reports it.
MakeWorkbook ==
    /\ pc = "make_workbook"
    /\ \E disk \in { "ok", "full" } :
         LET r == make_workbook(rows, disk)
         IN  /\ written' = r.written
             /\ IF r.raised # ""
                THEN /\ pc' = MainExcept(r.raised).pc
                     /\ log' = log \o MainExcept(r.raised).lines
                ELSE /\ pc' = "send_to_telegram"
                     /\ log' = Append(log, Saved)
    /\ UNCHANGED << API_KEY, BOT_TOKEN, CHAT_ID, remote, url, params, items,
                    requests, getFailed, chapters, counts, rows, upload, name,
                    region, fetched >>

\* send_to_telegram(wb_path), still inside main's try block.
SendToTelegram ==
    /\ pc = "send_to_telegram"
    /\ \E outcome \in UploadOutcomes :
         LET r == send_to_telegram(BOT_TOKEN, CHAT_ID, outcome)
         IN  /\ upload' = IF r.posted THEN outcome ELSE upload
             /\ IF r.raised # ""
                THEN /\ pc' = MainExcept(r.raised).pc
                     /\ log' = log \o r.lines \o MainExcept(r.raised).lines
                ELSE /\ pc' = "run_end"
                     /\ log' = log \o r.lines
    /\ UNCHANGED << API_KEY, BOT_TOKEN, CHAT_ID, remote, url, params, items,
                    requests, getFailed, chapters, counts, rows, written, name,
                    region, fetched >>

\* The end marker, and main returns.
MainRunEnd ==
    /\ pc = "run_end"
    /\ log' = Append(log, RunEnd)
    /\ pc' = "done"
    /\ UNCHANGED << API_KEY, BOT_TOKEN, CHAT_ID, remote, url, params, items,
                    requests, getFailed, chapters, counts, rows, written, upload,
                    name, region, fetched >>

Next ==
    \/ MainStart
    \/ MainFetch
    \/ FetchChaptersReturn
    \/ Gather13Return
    \/ Gather18Return
    \/ MakeWorkbook
    \/ SendToTelegram
    \/ MainRunEnd

\* One run of main.
Spec == Init /\ [][Next]_vars

\* One run of main on an interpreter that always takes the next step: the
\* program is a single thread and every request returns or times out.
LiveSpec == Spec /\ WF_vars(Next)

-----------------------------------------------------------------------------
(* cf_get_all on its own, against every remote collection within the bounds. *)

FetchRecords == { "r1", "r2", "r3" }

FetchInit ==
    /\ API_KEY = TRUE
    /\ BOT_TOKEN = TRUE
    /\ CHAT_ID = TRUE
    /\ pc = "cf_get_all"
    /\ remote \in Remotes(FetchRecords, MaxBatch)
    /\ url = 1
    /\ params = "query"
    /\ items = << >>
    /\ requests = 0
    /\ getFailed = FALSE
    /\ chapters = << >>
    /\ counts = ZeroCounts(<< >>)
    /\ rows = << >>
    /\ written = FALSE
    /\ upload = "none"
    /\ log = << >>
    /\ name = << >>
    /\ region = << >>
    /\ fetched = NoFetched

\* One iteration of cf_get_all's loop; an exception leaves the function.
CfGetAllStep ==
    /\ pc = "cf_get_all"
    /\ url # 0
    /\ GetPage
    /\ pc' = IF CfGetAllIter(remote, url, items).raised # "" THEN "raised" ELSE pc
    /\ UNCHANGED << API_KEY, BOT_TOKEN, CHAT_ID, remote, chapters, counts, rows,
                    written, upload, log, name, region, fetched >>

\* The loop condition fails: return items.
CfGetAllReturn ==
    /\ pc = "cf_get_all"
    /\ url = 0
    /\ pc' = "returned"
    /\ UNCHANGED << API_KEY, BOT_TOKEN, CHAT_ID, remote, url, params, items,
                    requests, getFailed, chapters, counts, rows, written, upload,
                    log, name, region, fetched >>

FetchNext == CfGetAllStep \/ CfGetAllReturn

FetchSpec == FetchInit /\ [][FetchNext]_vars

-----------------------------------------------------------------------------
(* chapter_to_region on its own, on the listed countries, the festival name  *)
(* and unlisted names, each in four spellings.                               *)

UpperChar(c) == IF c \in 97..122 THEN c - 32 ELSE c

Upper(s) == [ i \in 1..Len(s) |-> UpperChar(s[i]) ]

Capitalized(s) == [ i \in 1..Len(s) |-> IF i = 1 THEN UpperChar(s[i]) ELSE s[i] ]

Alternating(s) == [ i \in 1..Len(s) |-> IF i % 2 = 0 THEN UpperChar(s[i]) ELSE s[i] ]

Countries == UNION { Range(REGION_MAP[i].countries) : i \in DOMAIN REGION_MAP }

Unlisted == {
    << >>,                                                     \* ""
    <<102, 114, 97, 110, 99, 101>>,                            \* "france"
    <<105, 110, 100, 105, 97, 110, 97>>,                       \* "indiana"
    <<99, 104, 105, 110>>,                                     \* "chin"
    <<107, 111, 114, 101, 97>>,                                \* "korea"
    <<110, 101, 119, 32, 122, 101, 97, 108, 97, 110, 100, 32>>,  \* "new zealand "
    <<103, 108, 111, 98, 97, 108, 32, 102, 101, 115, 116, 105, 118, 97, 108,
      32, 100, 97, 121>> }                                     \* "global festival day"

Names ==
    LET base == Countries \cup { GlobalFestival } \cup Unlisted
    IN  base \cup { Upper(s) : s \in base } \cup { Capitalized(s) : s \in base }
             \cup { Alternating(s) : s \in base }

ClassifyInit ==
    /\ API_KEY = TRUE
    /\ BOT_TOKEN = TRUE
    /\ CHAT_ID = TRUE
    /\ pc = "chapter_to_region"
    /\ remote = NoRemote
    /\ url = 0
    /\ params = "none"
    /\ items = << >>
    /\ requests = 0
    /\ getFailed = FALSE
    /\ chapters = << >>
    /\ counts = ZeroCounts(<< >>)
    /\ rows = << >>
    /\ written = FALSE
    /\ upload = "none"
    /\ log = << >>
    /\ name \in Names
    /\ region = << >>
    /\ fetched = NoFetched

Classify ==
    /\ pc = "chapter_to_region"
    /\ region' = chapter_to_region(name)
    /\ pc' = "returned"
    /\ UNCHANGED << API_KEY, BOT_TOKEN, CHAT_ID, remote, url, params, items,
                    requests, getFailed, chapters, counts, rows, written, upload,
                    log, name, fetched >>

ClassifySpec == ClassifyInit /\ [][Classify]_vars

-----------------------------------------------------------------------------
(* The report built from materialised fetch results: the chapter loader,     *)
(* build_counts and the compose-and-sort loop.                               *)

ChapterRecords ==
    { [ slug |-> "a", name |-> <<98, 114, 97, 122, 105, 108>> ],   \* "brazil"
      [ slug |-> "b", name |-> <<67, 97, 110, 97, 100, 97>> ],     \* "Canada"
      [ slug |-> "c", name |-> <<67, 104, 105, 110, 97>> ] }       \* "China"

EntryRecords ==
    { [ slug |-> "a",  status |-> "submitted" ],
      [ slug |-> "a",  status |-> "pending" ],
      [ slug |-> "zz", status |-> "submitted" ] }

ReportInit ==
    /\ API_KEY = TRUE
    /\ BOT_TOKEN = TRUE
    /\ CHAT_ID = TRUE
    /\ pc = "report"
    /\ remote = NoRemote
    /\ url = 0
    /\ params = "none"
    /\ items = << >>
    /\ requests = 0
    /\ getFailed = FALSE
    /\ chapters = << >>
    /\ counts = ZeroCounts(<< >>)
    /\ rows = << >>
    /\ written = FALSE
    /\ upload = "none"
    /\ log = << >>
    /\ name = << >>
    /\ region = << >>
    /\ fetched \in [ chapters : Batches(ChapterRecords, MaxChapters),
                     e13      : Batches(EntryRecords, MaxEntries),
                     e18      : Batches(EntryRecords, MaxEntries) ]

BuildReport ==
    /\ pc = "report"
    /\ chapters' = LoadChapters(fetched.chapters)
    /\ counts' = build_counts(chapters', fetched.e13, fetched.e18)
    /\ rows' = ComposeRows(chapters', counts')
    /\ pc' = "reported"
    /\ UNCHANGED << API_KEY, BOT_TOKEN, CHAT_ID, remote, url, params, items,
                    requests, getFailed, written, upload, log, name, region,
                    fetched >>

ReportSpec == ReportInit /\ [][BuildReport]_vars

-----------------------------------------------------------------------------
(* Properties.                                                              *)

HasLine(l) == \E i \in DOMAIN log : log[i] = l

RunFailedLogged == \E i \in DOMAIN log : log[i].msg = RunFailed("").msg

\* main has come to its end: it returned, or an exception left it.
Terminated == pc \in { "done", "crashed" }

\* The start marker is in the log and the end marker follows it.
Markers ==
    \E i, j \in DOMAIN log : i < j /\ log[i] = RunStart /\ log[j] = RunEnd

\* C1: once a GET of the chapter fetch or of either entry fetch is answered
\* with an error, no further GET is issued, the workbook is never written,
\* make_workbook and the upload are never reached, and main goes to its end
\* marker and returns instead of letting the exception out.
C1_FetchErrorEndsRun ==
    [][ /\ getFailed' => /\ ~ written'
                          /\ upload' = "none"
                          /\ pc' \in { "run_end", "done" }
        /\ getFailed => /\ requests' = requests
                         /\ rows' = rows ]_vars

\* A run that failed in the last of the three fetches, after pages were read.
C1_Witness ==
    /\ pc = "done"
    /\ getFailed
    /\ requests >= 3
    /\ HasLine(Pulling(CATEGORY_SLUGS.above18))
    /\ RunFailedLogged

\* C2, as claimed: every execution of main, the one with the API key missing
\* included, logs the start marker and later the end marker.
C2_MarkersEveryRun == Terminated => Markers

\* C2, amended: every execution of main that finds the API key present logs
\* the start marker and later the end marker, whatever its outcome.
C2_MarkersWhenKeyPresent == (Terminated /\ API_KEY) => Markers

\* A run that failed in a fetch and still closed with the end marker.
C2_Witness ==
    /\ pc = "done"
    /\ API_KEY
    /\ RunFailedLogged
    /\ log[Len(log)] = RunEnd

\* C3: with the API key absent no GET and no POST is issued, no workbook is
\* written, main returns, and the log holds the one error line only.
C3_MissingKeyAborts ==
    ~ API_KEY => /\ requests = 0
                 /\ upload = "none"
                 /\ ~ written
                 /\ pc \in { "main", "done" }
                 /\ pc = "done" => log = << KeyMissing >>

\* A run with the API key absent that has returned, one line in its log.
C3_Witness == ~ API_KEY /\ pc = "done" /\ Len(log) = 1

\* C4, as claimed: whatever the outcome of the POST, the sender reports it
\* with its own success or failure line, the workbook stays written and the
\* run is not logged as failed by main's except clause.
C4_SenderNeverRaises ==
    (Terminated /\ upload # "none") =>
        /\ HasLine(Sent) \/ HasLine(UploadFailed)
        /\ written
        /\ ~ RunFailedLogged

\* C5, as claimed: with the API key present, no fetch error and the disk
\* writable, a missing bot token or chat id leaves the workbook written, no
\* POST issued, and the skip logged with its own line, not the upload-failure
\* line.
C5_SkipKeepsArtifact ==
    ( /\ pc = "done"
      /\ API_KEY
      /\ ~ getFailed
      /\ ~ HasLine(RunFailed("OSError"))
      /\ ~ (BOT_TOKEN /\ CHAT_ID) ) =>
        /\ written
        /\ upload = "none"
        /\ HasLine(NotSending)
        /\ ~ HasLine(UploadFailed)

RECURSIVE Flatten(_)
Flatten(pages) ==
    IF pages = << >> THEN << >> ELSE Head(pages) \o Flatten(Tail(pages))

\* C6: against a chain of n >= 1 successful pages whose last page has no
\* next-page reference, cf_get_all never raises, its k-th request goes to the
\* k-th page, after k requests it holds the first k batches concatenated in
\* order, and it returns after exactly n requests.
C6_ChainConcatenated ==
    remote.tail = "end" =>
        /\ pc # "raised"
        /\ requests <= Len(remote.pages)
        /\ items = Flatten(SubSeq(remote.pages, 1, requests))
        /\ (pc = "cf_get_all" /\ url # 0) => url = requests + 1
        /\ pc = "returned" => requests = Len(remote.pages)

\* A chain of MaxPages pages, one of them with several records, read to the end.
C6_Witness ==
    /\ pc = "returned"
    /\ remote.tail = "end"
    /\ Len(remote.pages) = MaxPages
    /\ requests = MaxPages
    /\ Len(items) > MaxPages

\* The entries of es that belong to chapter s and are (sub) or are not
\* (~sub) in status "submitted".
CountOf(es, s, sub) ==
    Cardinality({ i \in DOMAIN es :
                    es[i].slug = s /\ ((es[i].status = "submitted") <=> sub) })

\* C7: build_counts returns a mapping keyed by exactly the chapter slugs, each
\* counter equal to the number of that chapter's entries of the matching
\* category and status class; entries of unknown chapters count nowhere.
C7_CountsMatchEntries ==
    pc = "reported" =>
        /\ DOMAIN counts = { fetched.chapters[i].slug : i \in DOMAIN fetched.chapters }
        /\ \A s \in DOMAIN counts :
             /\ DOMAIN counts[s] = Counters
             /\ counts[s]["13_sub"]  = CountOf(fetched.e13, s, TRUE)
             /\ counts[s]["13_prog"] = CountOf(fetched.e13, s, FALSE)
             /\ counts[s]["18_sub"]  = CountOf(fetched.e18, s, TRUE)
             /\ counts[s]["18_prog"] = CountOf(fetched.e18, s, FALSE)

\* A chapter with a submitted and a pending 13-17 entry and a submitted 18+
\* entry, next to an entry of an unknown chapter.
C7_Witness ==
    /\ pc = "reported"
    /\ \E s \in DOMAIN counts :
         /\ counts[s]["13_sub"] = 1
         /\ counts[s]["13_prog"] = 1
         /\ counts[s]["18_sub"] = 1
    /\ \E i \in DOMAIN fetched.e18 : fetched.e18[i].slug \notin DOMAIN counts

RowKey(r) == << r.Region, Lower(r.Name) >>

\* C8: the report has one row per loaded chapter, the rows ascend in
\* (region, lowercased name), and the i-th row carries the number i.
C8_RowsSortedAndNumbered ==
    pc = "reported" =>
        /\ Len(rows) = Cardinality({ fetched.chapters[i].slug : i \in DOMAIN fetched.chapters })
        /\ Len(rows) = Len(chapters)
        /\ \A k \in DOMAIN chapters :
             \E j \in DOMAIN rows :
                 /\ rows[j].Name = chapters[k].name
                 /\ rows[j].Region = chapters[k].region
        /\ \A j \in DOMAIN rows : rows[j].No = j
        /\ \A j \in 1..(Len(rows) - 1) :
             ~ KeyLess(RowKey(rows[j + 1]), RowKey(rows[j]))

\* Chapters loaded as China, Canada, brazil come out as brazil (AMR) 1,
\* Canada (AMR) 2, China (PRC) 3.
C8_Witness ==
    /\ pc = "reported"
    /\ Len(rows) = 3
    /\ chapters[1].region = PRC
    /\ Lower(chapters[2].name) = <<99, 97, 110, 97, 100, 97>>
    /\ rows[1].Name = <<98, 114, 97, 122, 105, 108>>
    /\ rows[2].Name = <<67, 97, 110, 97, 100, 97>>
    /\ rows[3].Region = PRC

EqIgnoreCase(a, b) ==
    /\ Len(a) = Len(b)
    /\ \A i \in 1..Len(a) : UpperChar(a[i]) = UpperChar(b[i])

ListedIn(nm, i) ==
    \E c \in Range(REGION_MAP[i].countries) : EqIgnoreCase(nm, c)

\* C9: chapter_to_region returns one of the five regions; the region whose
\* country list holds the name up to case; Other for "global festival" up to
\* case; EMEA for every other name.
C9_RegionOfName ==
    pc = "returned" =>
        /\ region \in { AMR, PRC, APJ, EMEA, Other }
        /\ \A i \in DOMAIN REGION_MAP :
             ListedIn(name, i) => region = REGION_MAP[i].region
        /\ EqIgnoreCase(name, GlobalFestival) => region = Other
        /\ ( /\ ~ EqIgnoreCase(name, GlobalFestival)
             /\ \A i \in DOMAIN REGION_MAP : ~ ListedIn(name, i) ) => region = EMEA

\* A listed APJ country spelled with capitals is classified APJ.
C9_Witness ==
    /\ pc = "returned"
    /\ region = APJ
    /\ name # Lower(name)

\* C10, as claimed: whatever the remote API answers, next-page references
\* included, the run comes to its end.
C10_RunEnds == <>(pc = "done")

=============================================================================
